---- MODULE Spec2Model ----
(***************************************************************************)
(* Expense / monthly-report bookkeeping of the expense backend.            *)
(*                                                                         *)
(* The database holds two collections that matter here: Expense documents  *)
(* and Report documents (one per user, month, year: unique index).  The    *)
(* handlers of controllers/expenses.js keep the Report totals in step with *)
(* the expenses, the handler updateReportStatus of controllers/reports.js  *)
(* runs the status workflow.                                               *)
(*                                                                         *)
(* Numbers are integers: distances and rates are drawn from 1..Max, so     *)
(* every sum and product is exact (the rounding of JS doubles is not       *)
(* modelled).  A missing numeric request field is 0 where the code tests   *)
(* it for truthiness and NoAmount where the code tests it for undefined.   *)
(***************************************************************************)
EXTENDS Integers, Sequences, FiniteSets, TLC

\* ---- bounds of the model ------------------------------------------------
MaxExpenses == 2      \* number of Expense documents ever created
MaxDistance == 2      \* request distances are 1..MaxDistance
MaxCostPerKm == 2     \* request rates are 1..MaxCostPerKm
MaxReimbursed == 2    \* request reimbursedAmount is 0..MaxReimbursed
MaxRequests == 4      \* number of requests started in the concurrent runs
MaxLimits == 2        \* number of budget limits a category holds

\* ---- program constants --------------------------------------------------
MinYear == 2000
MaxYear == 2100

\* ---- users and roles ----------------------------------------------------
\* u1 and u3 are sales representatives, u2 is an administrator
Users == {"u1", "u2", "u3"}
Role(u) == IF u = "u2" THEN "admin" ELSE "sales_rep"
NoUser == "none"

\* ---- dates --------------------------------------------------------------
\* Now is the time of every request; Dates holds two past days of two
\* different months, one future day, and one day of a year that the Report
\* schema does not accept.
Now == [year |-> 2024, month |-> 2, day |-> 15]
NoDate == [year |-> 0, month |-> 0, day |-> 0]
Jan10 == [year |-> 2024, month |-> 1, day |-> 10]
Feb10 == [year |-> 2024, month |-> 2, day |-> 10]
Feb20 == [year |-> 2024, month |-> 2, day |-> 20]
Old == [year |-> 1999, month |-> 1, day |-> 10]
Dates == {Jan10, Feb10, Feb20, Old}

\* start dates of budget limits: the first, a middle and the last day of a
\* month, and a day that February does not have three months later
Jan1 == [year |-> 2024, month |-> 1, day |-> 1]
Jan31 == [year |-> 2024, month |-> 1, day |-> 31]
Nov30 == [year |-> 2023, month |-> 11, day |-> 30]
StartDates == {Jan1, Jan10, Jan31, Nov30}

DateValue(d) == (d.year * 12 + d.month) * 31 + d.day
IsFuture(d) == DateValue(d) > DateValue(Now)
getMonth(d) == d.month
getFullYear(d) == d.year

\* ---- documents ----------------------------------------------------------
Statuses == {"draft", "submitted", "approved", "rejected"}
NoAmount == 0 - 1
ExpenseIds == 1..MaxExpenses

VARIABLES
  expenses,   \* Expense collection: id -> document
  reports,    \* Report collection: <<user, month, year>> -> document
  nextId,     \* next Expense _id
  res,        \* the last response: the handler that answered and its status code
  inflight,   \* the requests between two of their awaits, and how many started
  categories, \* Category collection: id -> document
  data,       \* the payload of the last response: budget alerts or usage records
  quarterly   \* QuarterlyReport collection: <<user, quarter, year>> -> document

vars == <<expenses, reports, nextId, res, inflight, categories, data, quarterly>>

ReportKey(u, m, y) == <<u, m, y>>

\* ReportSchema validators of month and year (run by create and save)
ReportValidates(m, y) ==
  /\ m >= 1 /\ m <= 12
  /\ y >= MinYear /\ y <= MaxYear

\* ExpenseSchema.pre("save"): totalCost is always distance * costPerKm
ExpensePreSave(doc) == [doc EXCEPT !.totalCost = doc.distance * doc.costPerKm]

\* the document of Report.create({... status: "draft", reimbursedAmount: 0 ...})
NewReport(exp, id) ==
  [ totalDistance |-> exp.distance,
    totalExpenseAmount |-> exp.totalCost,
    reimbursedAmount |-> 0,
    pendingAmount |-> exp.totalCost,
    status |-> "draft",
    submittedAt |-> FALSE,
    expenses |-> <<id>> ]

\* a revert that leaves an approved Report approved
RevertSubmittedOnly(r) ==
  IF r.status = "submitted" THEN [r EXCEPT !.status = "draft"] ELSE r

\* a revert that also reopens a rejected Report
RevertAnyToDraft(r) == [r EXCEPT !.status = "draft"]

\* "If report was already submitted or approved, revert to draft"
RevertToDraft(r) ==
  IF r.status = "submitted" \/ r.status = "approved"
  THEN [r EXCEPT !.status = "draft"]
  ELSE r

\* report.expenses.filter(expId => expId !== expense._id)
FilterOut(seq, id) == SelectSeq(seq, LAMBDA x : x # id)

RECURSIVE SumDistance(_, _)
SumDistance(exps, seq) ==
  IF seq = <<>> THEN 0
  ELSE (IF Head(seq) \in DOMAIN exps THEN exps[Head(seq)].distance ELSE 0)
       + SumDistance(exps, Tail(seq))

RECURSIVE SumTotalCost(_, _)
SumTotalCost(exps, seq) ==
  IF seq = <<>> THEN 0
  ELSE (IF Head(seq) \in DOMAIN exps THEN exps[Head(seq)].totalCost ELSE 0)
       + SumTotalCost(exps, Tail(seq))

\* ---- calendar --------------------------------------------------------------
IsLeap(y) == ((y % 4) = 0 /\ (y % 100) # 0) \/ (y % 400) = 0
DaysInMonth(y, m) ==
  IF m = 2 THEN (IF IsLeap(y) THEN 29 ELSE 28)
  ELSE IF m \in {4, 6, 9, 11} THEN 30 ELSE 31

\* new Date(year, monthIndex + 1, 0): the last day of the month; months past
\* December roll into the next year
LastDayOfMonth(y, m) ==
  LET yy == y + ((m - 1) \div 12)
      mm == ((m - 1) % 12) + 1
  IN [year |-> yy, month |-> mm, day |-> DaysInMonth(yy, mm)]

\* d.setMonth(d.getMonth() + n): the day is kept, and a day the new month
\* does not have rolls over into the month after
AddMonths(d, n) ==
  LET yy == d.year + ((d.month - 1 + n) \div 12)
      mm == ((d.month - 1 + n) % 12) + 1
  IN IF d.day <= DaysInMonth(yy, mm)
     THEN [year |-> yy, month |-> mm, day |-> d.day]
     ELSE [year |-> yy + (mm \div 12), month |-> (mm % 12) + 1,
           day |-> d.day - DaysInMonth(yy, mm)]

\* d.setDate(0): the last day of the month before
SetDateZero(d) ==
  IF d.month = 1 THEN LastDayOfMonth(d.year - 1, 12)
  ELSE LastDayOfMonth(d.year, d.month - 1)

\* ---- categories and budget limits ------------------------------------------
CategoryIds == {"c1", "c2"}
NoCategory == "none"
Periods == {"monthly", "quarterly", "yearly"}
DefaultThreshold == 80

\* an end date one day before the same day of the month the period ends in
EndDateDayBefore(start, period) ==
  LET back(d) ==
        IF d.day > 1 THEN [d EXCEPT !.day = d.day - 1]
        ELSE SetDateZero(d)
  IN IF period = "monthly" THEN back(AddMonths(start, 1))
     ELSE IF period = "quarterly" THEN back(AddMonths(start, 3))
     ELSE IF period = "yearly" THEN back(AddMonths(start, 12))
     ELSE NoDate

\* "Calculate end date based on period"; no branch for another period
EndDate(start, period) ==
  IF period = "monthly" THEN SetDateZero(AddMonths(start, 1))
  ELSE IF period = "quarterly" THEN SetDateZero(AddMonths(start, 3))
  ELSE IF period = "yearly" THEN SetDateZero(AddMonths(start, 12))
  ELSE NoDate

\* a category as the seeder and createCategory store it
NewCategory(limits) ==
  [ budgetLimits |-> limits,
    currentUsage |-> [monthly |-> 0, quarterly |-> 0, yearly |-> 0] ]

\* sum of totalCost over the expenses ids of exps
RECURSIVE SumOver(_, _)
SumOver(exps, ids) ==
  IF ids = {} THEN 0
  ELSE LET id == CHOOSE x \in ids : TRUE
       IN exps[id].totalCost + SumOver(exps, ids \ {id})

\* a usage window that leaves out the expenses of its last day
MatchBeforeEnd(exps, categoryId, startDate, endDate) ==
  { id \in DOMAIN exps :
      /\ exps[id].category = categoryId
      /\ DateValue(exps[id].journeyDate) >= DateValue(startDate)
      /\ DateValue(exps[id].journeyDate) < DateValue(endDate) }

\* $match: {category, journeyDate: {$gte: startDate, $lte: endDate}}
Match(exps, categoryId, startDate, endDate) ==
  { id \in DOMAIN exps :
      /\ exps[id].category = categoryId
      /\ DateValue(exps[id].journeyDate) >= DateValue(startDate)
      /\ DateValue(exps[id].journeyDate) <= DateValue(endDate) }

\* Category.calculateBudgetUsage: $match, $group {_id: null, $sum}, and
\* "result.length > 0 ? result[0].totalAmount : 0"
calculateBudgetUsage(exps, categoryId, startDate, endDate) ==
  LET matched == Match(exps, categoryId, startDate, endDate)
      result == IF matched = {} THEN <<>>
                ELSE << [totalAmount |-> SumOver(exps, matched)] >>
  IN IF Len(result) > 0 THEN result[1].totalAmount ELSE 0

\* an alert status that warns only below the full amount
AlertStatusBelowFull(usage, limit) ==
  IF limit.amount = 0
  THEN (IF usage > 0 THEN "exceeded" ELSE "normal")
  ELSE IF usage * 100 >= 100 * limit.amount THEN "exceeded"
  ELSE IF usage * 100 >= limit.notificationThreshold * limit.amount THEN "warning"
  ELSE "normal"

\* percentUsed = (usage / amount) * 100; exceeded above 100, warning from
\* the threshold to 100.  An amount of 0 gives Infinity (exceeded) or NaN.
AlertStatus(usage, limit) ==
  IF limit.amount = 0
  THEN (IF usage > 0 THEN "exceeded" ELSE "normal")
  ELSE IF usage * 100 > 100 * limit.amount THEN "exceeded"
  ELSE IF usage * 100 >= limit.notificationThreshold * limit.amount THEN "warning"
  ELSE "normal"

\* one record of getBudgetUsage
UsageRecord(exps, categoryId, limit) ==
  LET usage == calculateBudgetUsage(exps, categoryId, limit.startDate, limit.endDate)
  IN [ period |-> limit.period,
       startDate |-> limit.startDate,
       endDate |-> limit.endDate,
       budgetAmount |-> limit.amount,
       currentUsage |-> usage,
       alertStatus |-> AlertStatus(usage, limit) ]

\* getBudgetUsage: one record for each active limit
BudgetUsage(exps, cats, categoryId) ==
  LET active == SelectSeq(cats[categoryId].budgetLimits, LAMBDA l : l.isActive)
  IN [i \in 1..Len(active) |-> UsageRecord(exps, categoryId, active[i])]

\* updateBudgetUsage: the usage of the current month, quarter and year
CurrentUsage(exps, categoryId) ==
  LET y == getFullYear(Now)
      m == getMonth(Now)
      q == ((m - 1) \div 3) * 3 + 1
      first(mm) == [year |-> y, month |-> mm, day |-> 1]
  IN [ monthly |-> calculateBudgetUsage(exps, categoryId, first(m), LastDayOfMonth(y, m)),
       quarterly |-> calculateBudgetUsage(exps, categoryId, first(q), LastDayOfMonth(y, q + 2)),
       yearly |-> calculateBudgetUsage(exps, categoryId, first(1),
                                       [year |-> y, month |-> 12, day |-> 31]) ]

\* ---- tokens -----------------------------------------------------------------
\* A bearer token is a user's JWT (named by the user) or the internal API
\* token, which is a random hex string or a configured word, not a JWT.
InternalToken == "internal"
Tokens == Users \cup {InternalToken}

\* protect: jwt.verify(token, JWT_SECRET) succeeds for the JWT of a user
Protect(token) == token \in Users

\* POST /:id/budget/update-usage behind router.use(protect): the internal
\* token, else an admin; then updateBudgetUsage
UpdateUsageRoute(token, exps, cats, categoryId) ==
  IF ~Protect(token) THEN [code |-> 401, categories |-> cats]
  ELSE IF token # InternalToken /\ Role(token) # "admin"
  THEN [code |-> 403, categories |-> cats]
  ELSE IF categoryId \notin DOMAIN cats THEN [code |-> 404, categories |-> cats]
  ELSE [ code |-> 200,
         categories |-> [cats EXCEPT ![categoryId].currentUsage =
                           CurrentUsage(exps, categoryId)] ]

\* GET /:id/budget/usage behind router.use(protect); then getBudgetUsage
UsageRoute(token, exps, cats, categoryId) ==
  IF ~Protect(token) THEN [code |-> 401, data |-> <<>>]
  ELSE IF categoryId \notin DOMAIN cats THEN [code |-> 404, data |-> <<>>]
  ELSE [code |-> 200, data |-> BudgetUsage(exps, cats, categoryId)]

\* a budget check whose failure reaches the handler
checkBudgetLimitsThrowing(expense, exps, cats) ==
  LET post == UpdateUsageRoute(InternalToken, exps, cats, expense.category)
      get == UsageRoute(InternalToken, exps, post.categories, expense.category)
  IN [ threw |-> post.code # 200 \/ get.code # 200,
       alerts |-> <<>>,
       categories |-> post.categories ]

\* checkBudgetLimits: the two internal calls with the internal token; axios
\* throws on an answer that is not 2xx, the catch returns no alerts
checkBudgetLimits(expense, exps, cats) ==
  LET post == UpdateUsageRoute(InternalToken, exps, cats, expense.category)
      get == UsageRoute(InternalToken, exps, post.categories, expense.category)
  IN IF post.code # 200
     THEN [threw |-> FALSE, alerts |-> <<>>, categories |-> cats]
     ELSE IF get.code # 200
     THEN [threw |-> FALSE, alerts |-> <<>>, categories |-> post.categories]
     ELSE [ threw |-> FALSE,
            alerts |-> SelectSeq(get.data,
                                 LAMBDA b : b.alertStatus \in {"warning", "exceeded"}),
            categories |-> post.categories ]

\* ---- createExpense ------------------------------------------------------
\* body: distance (0: missing), costPerKm, totalCost (0: missing), journeyDate
CreateBodies ==
  [ distance : 0..MaxDistance,
    costPerKm : 1..MaxCostPerKm,
    totalCost : {0, 3},
    journeyDate : {Jan10, Feb10, Feb20, Old},
    category : {"c1"} ]

\* a createExpense that creates a Report without looking for one
ReportAlwaysCreated(reps, u, exp, id) ==
  (ReportKey(u, getMonth(exp.journeyDate), getFullYear(exp.journeyDate))
     :> NewReport(exp, id)) @@ reps

\* the report part of createExpense: found -> add and save; else create
ReportAfterCreate(reps, u, exp, id) ==
  LET key == ReportKey(u, getMonth(exp.journeyDate), getFullYear(exp.journeyDate)) IN
  IF key \in DOMAIN reps
  THEN [reps EXCEPT ![key] =
          RevertToDraft([@ EXCEPT !.totalDistance = @ + exp.distance,
                                  !.totalExpenseAmount = @ + exp.totalCost,
                                  !.pendingAmount = @ + exp.totalCost,
                                  !.expenses = Append(@, id)])]
  ELSE (key :> NewReport(exp, id)) @@ reps

\* the handlers of expenses and reports touch no QuarterlyReport, and only
\* the budget check of a successful create or update touches a category
NoBudgetCheck ==
  /\ data' = <<>>
  /\ UNCHANGED <<categories, quarterly>>

createExpense(u, body) ==
  /\ nextId <= MaxExpenses
  /\ UNCHANGED inflight
  /\ IF body.distance = 0
     THEN /\ res' = [op |-> "createExpense", code |-> 400]
          /\ UNCHANGED <<expenses, reports, nextId>>
          /\ NoBudgetCheck
     ELSE IF IsFuture(body.journeyDate)
     THEN /\ res' = [op |-> "createExpense", code |-> 400]
          /\ UNCHANGED <<expenses, reports, nextId>>
          /\ NoBudgetCheck
     ELSE LET expense == ExpensePreSave(
                 [ user |-> u,
                   distance |-> body.distance,
                   costPerKm |-> body.costPerKm,
                   totalCost |-> IF body.totalCost = 0
                                 THEN body.distance * body.costPerKm
                                 ELSE body.totalCost,
                   journeyDate |-> body.journeyDate,
                   category |-> body.category ])
              month == getMonth(body.journeyDate)
              year == getFullYear(body.journeyDate)
              key == ReportKey(u, month, year)
              stored == (nextId :> expense) @@ expenses
              check == checkBudgetLimits(expense, stored, categories)
          IN /\ expenses' = stored
             /\ nextId' = nextId + 1
             /\ IF key \notin DOMAIN reports /\ ~ReportValidates(month, year)
                THEN \* Report.create throws a ValidationError, caught: 500
                     /\ reports' = reports
                     /\ res' = [op |-> "createExpense", code |-> 500]
                     /\ NoBudgetCheck
                ELSE /\ reports' = ReportAfterCreate(reports, u, expense, nextId)
                     /\ res' = [op |-> "createExpense",
                                code |-> IF check.threw THEN 500 ELSE 201]
                     /\ categories' = check.categories
                     /\ data' = check.alerts
                     /\ UNCHANGED quarterly

\* ---- updateExpense ------------------------------------------------------
\* body: distance, costPerKm, totalCost (0: missing), journeyDate (NoDate:
\* missing), user (NoUser: missing).  The body goes to findByIdAndUpdate as
\* it is, so every field it carries is written to the document.
UpdateBodies ==
  [ distance : 0..MaxDistance,
    costPerKm : 0..MaxCostPerKm,
    totalCost : {0},
    journeyDate : {NoDate, Jan10, Feb10, Old},
    user : {NoUser},
    category : {NoCategory} ]

\* "Update the totalCost if distance or costPerKm has changed"
BodyTotalCost(expense, body) ==
  IF body.distance # 0 \/ body.costPerKm # 0
  THEN (IF body.distance # 0 THEN body.distance ELSE expense.distance)
       * (IF body.costPerKm # 0 THEN body.costPerKm ELSE expense.costPerKm)
  ELSE body.totalCost

\* Expense.findByIdAndUpdate(id, req.body, {new: true})
ExpenseAfterUpdate(expense, body) ==
  [ user |-> IF body.user # NoUser THEN body.user ELSE expense.user,
    distance |-> IF body.distance # 0 THEN body.distance ELSE expense.distance,
    costPerKm |-> IF body.costPerKm # 0 THEN body.costPerKm ELSE expense.costPerKm,
    totalCost |-> IF BodyTotalCost(expense, body) # 0
                  THEN BodyTotalCost(expense, body) ELSE expense.totalCost,
    journeyDate |-> IF body.journeyDate # NoDate
                    THEN body.journeyDate ELSE expense.journeyDate,
    category |-> IF body.category # NoCategory
                 THEN body.category ELSE expense.category ]

\* same month and year: "just update totals" of the report, when found
ReportsSamePeriod(reps, previous, expense) ==
  LET key == ReportKey(expense.user, getMonth(expense.journeyDate),
                       getFullYear(expense.journeyDate)) IN
  IF key \in DOMAIN reps
  THEN [reps EXCEPT ![key] =
          RevertToDraft([@ EXCEPT
             !.totalDistance = @ - previous.distance + expense.distance,
             !.totalExpenseAmount = @ - previous.totalCost + expense.totalCost,
             !.pendingAmount = @ - previous.totalCost + expense.totalCost])]
  ELSE reps

\* different month: the old report, when found, loses the expense and is saved
ReportsOldPeriod(reps, previous, expense, id) ==
  LET key == ReportKey(expense.user, getMonth(previous.journeyDate),
                       getFullYear(previous.journeyDate)) IN
  IF key \in DOMAIN reps
  THEN [reps EXCEPT ![key] =
          RevertToDraft([@ EXCEPT
             !.expenses = FilterOut(@, id),
             !.totalDistance = @ - previous.distance,
             !.totalExpenseAmount = @ - previous.totalCost,
             !.pendingAmount = @ - previous.totalCost])]
  ELSE reps

\* different month: the new report gets the expense, or is created
ReportsNewPeriod(reps, expense, id) ==
  LET key == ReportKey(expense.user, getMonth(expense.journeyDate),
                       getFullYear(expense.journeyDate)) IN
  IF key \in DOMAIN reps
  THEN [reps EXCEPT ![key] =
          RevertToDraft([@ EXCEPT
             !.expenses = Append(@, id),
             !.totalDistance = @ + expense.distance,
             !.totalExpenseAmount = @ + expense.totalCost,
             !.pendingAmount = @ + expense.totalCost])]
  ELSE (key :> NewReport(expense, id)) @@ reps

SamePeriod(d1, d2) ==
  getMonth(d1) = getMonth(d2) /\ getFullYear(d1) = getFullYear(d2)

updateExpense(u, id, body) ==
  /\ UNCHANGED inflight
  /\ IF id \notin DOMAIN expenses
     THEN /\ res' = [op |-> "updateExpense", code |-> 404]
          /\ UNCHANGED <<expenses, reports, nextId>>
          /\ NoBudgetCheck
     ELSE IF expenses[id].user # u /\ Role(u) # "admin"
     THEN /\ res' = [op |-> "updateExpense", code |-> 403]
          /\ UNCHANGED <<expenses, reports, nextId>>
          /\ NoBudgetCheck
     ELSE LET previous == expenses[id]
              expense == ExpenseAfterUpdate(previous, body)
              newKey == ReportKey(expense.user, getMonth(expense.journeyDate),
                                  getFullYear(expense.journeyDate))
              stored == [expenses EXCEPT ![id] = expense]
              check == checkBudgetLimits(expense, stored, categories)
              answer == /\ res' = [op |-> "updateExpense",
                                   code |-> IF check.threw THEN 500 ELSE 200]
                        /\ categories' = check.categories
                        /\ data' = check.alerts
                        /\ UNCHANGED quarterly
          IN /\ expenses' = stored
             /\ UNCHANGED nextId
             /\ IF SamePeriod(previous.journeyDate, expense.journeyDate)
                THEN /\ reports' = ReportsSamePeriod(reports, previous, expense)
                     /\ answer
                ELSE LET afterOld == ReportsOldPeriod(reports, previous, expense, id) IN
                     IF newKey \notin DOMAIN afterOld
                        /\ ~ReportValidates(getMonth(expense.journeyDate),
                                            getFullYear(expense.journeyDate))
                     THEN \* Report.create throws a ValidationError: 400
                          /\ reports' = afterOld
                          /\ res' = [op |-> "updateExpense", code |-> 400]
                          /\ NoBudgetCheck
                     ELSE /\ reports' = ReportsNewPeriod(afterOld, expense, id)
                          /\ answer

\* ---- deleteExpense ------------------------------------------------------
ReportsAfterDelete(reps, expense, id) ==
  LET key == ReportKey(expense.user, getMonth(expense.journeyDate),
                       getFullYear(expense.journeyDate)) IN
  IF key \in DOMAIN reps
  THEN IF FilterOut(reps[key].expenses, id) = <<>>
       THEN [k \in DOMAIN reps \ {key} |-> reps[k]]
       ELSE [reps EXCEPT ![key] =
               RevertToDraft([@ EXCEPT
                  !.expenses = FilterOut(@, id),
                  !.totalDistance = @ - expense.distance,
                  !.totalExpenseAmount = @ - expense.totalCost,
                  !.pendingAmount = @ - expense.totalCost])]
  ELSE reps

deleteExpense(u, id) ==
  /\ UNCHANGED inflight
  /\ NoBudgetCheck
  /\ IF id \notin DOMAIN expenses
     THEN /\ res' = [op |-> "deleteExpense", code |-> 404]
          /\ UNCHANGED <<expenses, reports, nextId>>
     ELSE IF expenses[id].user # u /\ Role(u) # "admin"
     THEN /\ res' = [op |-> "deleteExpense", code |-> 403]
          /\ UNCHANGED <<expenses, reports, nextId>>
     ELSE /\ reports' = ReportsAfterDelete(reports, expenses[id], id)
          /\ expenses' = [k \in DOMAIN expenses \ {id} |-> expenses[k]]
          /\ UNCHANGED nextId
          /\ res' = [op |-> "deleteExpense", code |-> 200]

\* ---- the handlers the expenses router mounts -------------------------------
\* routes/expenses.js imports createExpense, updateExpense and deleteExpense
\* from controllers/expense.controller.js, not from controllers/expenses.js.
\* These handlers read and write the Expense collection only.

\* POST /expenses as mounted: new Expense({user: req.user.id, ...}).save().
\* A body without a rate takes the default rate of the configuration, 0.70,
\* which is no whole number: such bodies are left out.
MountedCreateExpense(u, body) ==
  /\ nextId <= MaxExpenses
  /\ body.costPerKm # 0
  /\ UNCHANGED <<inflight, reports>>
  /\ NoBudgetCheck
  /\ IF body.distance = 0
     THEN \* distance is required: save() throws, caught: 500
          /\ res' = [op |-> "createExpense", code |-> 500]
          /\ UNCHANGED <<expenses, nextId>>
     ELSE /\ expenses' = (nextId :> ExpensePreSave(
                             [ user |-> u,
                               distance |-> body.distance,
                               costPerKm |-> body.costPerKm,
                               totalCost |-> body.distance * body.costPerKm,
                               journeyDate |-> body.journeyDate,
                               category |-> body.category ])) @@ expenses
          /\ nextId' = nextId + 1
          /\ res' = [op |-> "createExpense", code |-> 201]

\* "if (distance) expense.distance = distance" and so on, then save(); the
\* body's user and totalCost are not read
MountedExpenseAfterUpdate(expense, body) ==
  ExpensePreSave(
    [ expense EXCEPT
        !.distance = IF body.distance # 0 THEN body.distance ELSE @,
        !.costPerKm = IF body.costPerKm # 0 THEN body.costPerKm ELSE @,
        !.journeyDate = IF body.journeyDate # NoDate THEN body.journeyDate ELSE @,
        !.category = IF body.category # NoCategory THEN body.category ELSE @ ])

\* PUT /expenses/:id as mounted
MountedUpdateExpense(u, id, body) ==
  /\ UNCHANGED <<inflight, reports, nextId>>
  /\ NoBudgetCheck
  /\ IF id \notin DOMAIN expenses
     THEN /\ res' = [op |-> "updateExpense", code |-> 404]
          /\ UNCHANGED expenses
     ELSE IF expenses[id].user # u /\ Role(u) # "admin"
     THEN /\ res' = [op |-> "updateExpense", code |-> 403]
          /\ UNCHANGED expenses
     ELSE /\ res' = [op |-> "updateExpense", code |-> 200]
          /\ expenses' = [expenses EXCEPT ![id] = MountedExpenseAfterUpdate(@, body)]

\* DELETE /expenses/:id as mounted: expense.deleteOne()
MountedDeleteExpense(u, id) ==
  /\ UNCHANGED <<inflight, reports, nextId>>
  /\ NoBudgetCheck
  /\ IF id \notin DOMAIN expenses
     THEN /\ res' = [op |-> "deleteExpense", code |-> 404]
          /\ UNCHANGED expenses
     ELSE IF expenses[id].user # u /\ Role(u) # "admin"
     THEN /\ res' = [op |-> "deleteExpense", code |-> 403]
          /\ UNCHANGED expenses
     ELSE /\ res' = [op |-> "deleteExpense", code |-> 200]
          /\ expenses' = [k \in DOMAIN expenses \ {id} |-> expenses[k]]

\* ---- updateReportStatus -------------------------------------------------
\* body: status ("none": missing), comments ("none": missing, "": empty),
\* reimbursedAmount (NoAmount: missing).  A report's id is its key.
StatusBodies ==
  [ status : Statuses \cup {"none", "paid"},
    comments : {"none", "", "text"},
    reimbursedAmount : {NoAmount} \cup (0..MaxReimbursed) ]

ReportKeys == { ReportKey(u, getMonth(d), getFullYear(d)) : u \in Users, d \in Dates }

\* req.body.totalExpenseAmount, which no rule of reportStatusValidation names
\* (NoAmount: the body carries none)
BodyTotal(body) ==
  IF "totalExpenseAmount" \in DOMAIN body THEN body.totalExpenseAmount ELSE NoAmount

\* Report.findByIdAndUpdate(id, req.body): the fields the body carries
ReportAfterStatus(report, body, reimbursed, pending) ==
  [ report EXCEPT
      !.status = body.status,
      !.totalExpenseAmount = IF BodyTotal(body) # NoAmount THEN BodyTotal(body) ELSE @,
      !.reimbursedAmount = IF reimbursed # NoAmount THEN reimbursed ELSE @,
      !.pendingAmount = IF pending # NoAmount THEN pending ELSE @,
      !.submittedAt = (body.status = "submitted") \/ @ ]

\* a submission accepted although the requester is not the owner
SubmitCodeAnyUser(u, key) ==
  IF reports[key].status # "draft" THEN 400 ELSE 200

\* status submitted: "Only the report owner can submit", from draft only
SubmitCode(u, key) ==
  IF key[1] # u THEN 403
  ELSE IF reports[key].status # "draft" THEN 400
  ELSE 200

\* status approved: a reimbursedAmount above the total is refused
ApproveCode(report, body) ==
  IF body.reimbursedAmount # NoAmount
     /\ body.reimbursedAmount > report.totalExpenseAmount
  THEN 400
  ELSE 200

\* a rejection accepted without comments
RejectCodeNoComments(body) == 200

\* status rejected: "Comments are required when rejecting a report"
RejectCode(body) ==
  IF body.comments \in {"none", ""} THEN 400 ELSE 200

\* a decision accepted whatever the Report's status
DecideCodeAnyStatus(u, key, body) ==
  IF Role(u) # "admin" THEN 403
  ELSE IF body.status = "approved" THEN ApproveCode(reports[key], body)
  ELSE RejectCode(body)

\* status approved or rejected: admins only, on a submitted Report
DecideCode(u, key, body) ==
  IF Role(u) # "admin" THEN 403
  ELSE IF reports[key].status # "submitted" THEN 400
  ELSE IF body.status = "approved" THEN ApproveCode(reports[key], body)
  ELSE RejectCode(body)

\* the answer of updateReportStatus: 200, or the code of its first failed check
StatusCode(u, key, body) ==
  IF key \notin DOMAIN reports THEN 404
  ELSE IF body.status = "none" THEN 400
  ELSE IF body.status \notin Statuses THEN 400
  ELSE IF body.status = "submitted" THEN SubmitCode(u, key)
  ELSE IF body.status \in {"approved", "rejected"} THEN DecideCode(u, key, body)
  ELSE 200

\* approval: the reimbursedAmount written (the body's, else the full total)
ReimbursedOf(report, body) ==
  IF body.status = "approved" /\ body.reimbursedAmount = NoAmount
  THEN report.totalExpenseAmount
  ELSE body.reimbursedAmount

\* an approval that always clears the pending amount
PendingZero(report, body) ==
  IF body.status = "approved" THEN 0 ELSE NoAmount

\* approval: the pendingAmount written (NoAmount: the body carries none)
PendingOf(report, body) ==
  IF body.status = "approved"
  THEN (IF body.reimbursedAmount # NoAmount
        THEN report.totalExpenseAmount - body.reimbursedAmount
        ELSE 0)
  ELSE NoAmount

\* the Report collection after updateReportStatus
StatusOutcome(u, key, body) ==
  IF StatusCode(u, key, body) # 200
  THEN reports
  ELSE [reports EXCEPT ![key] =
          ReportAfterStatus(reports[key], body,
                            ReimbursedOf(reports[key], body),
                            PendingOf(reports[key], body))]

updateReportStatus(u, key, body) ==
  /\ res' = [op |-> "updateReportStatus", code |-> StatusCode(u, key, body)]
  /\ reports' = StatusOutcome(u, key, body)
  /\ UNCHANGED <<expenses, nextId, inflight>>
  /\ NoBudgetCheck

\* ---- createQuarterlyReport -------------------------------------------------
\* the unique index of QuarterlyReport: user, quarter, year
QuarterlyKey(u, quarter, year) == <<u, quarter, year>>

\* QuarterlyReportSchema validators of quarter and year (run by create)
QuarterlyValidates(quarter, year) ==
  /\ quarter >= 1 /\ quarter <= 4
  /\ year >= MinYear /\ year <= MaxYear

\* startMonth .. endMonth of the quarter
QuarterMonths(quarter) == ((quarter - 1) * 3 + 1) .. ((quarter - 1) * 3 + 3)

\* Report.find({user, year, month: {$gte: startMonth, $lte: endMonth}})
MonthlyReports(reps, u, quarter, year) ==
  { k \in DOMAIN reps : k[1] = u /\ k[3] = year /\ k[2] \in QuarterMonths(quarter) }

\* the orders in which the find can return the reports: it asks for no sort
FindOrders(keys) ==
  { order \in [1..Cardinality(keys) -> keys] :
      \A i, j \in 1..Cardinality(keys) : i # j => order[i] # order[j] }

\* populate("expenses") and exp._id: the references whose expense exists
Populated(exps, seq) == SelectSeq(seq, LAMBDA id : id \in DOMAIN exps)

\* "Aggregate report data": the forEach over the monthly reports
RECURSIVE Aggregate(_, _, _)
Aggregate(reps, exps, order) ==
  IF order = <<>>
  THEN [ totalDistance |-> 0, totalExpenseAmount |-> 0, reimbursedAmount |-> 0,
         pendingAmount |-> 0, status |-> "draft", expenses |-> <<>> ]
  ELSE LET report == reps[order[Len(order)]]
           before == Aggregate(reps, exps, SubSeq(order, 1, Len(order) - 1))
       IN [ totalDistance |-> before.totalDistance + report.totalDistance,
            totalExpenseAmount |-> before.totalExpenseAmount + report.totalExpenseAmount,
            reimbursedAmount |-> before.reimbursedAmount + report.reimbursedAmount,
            pendingAmount |-> before.pendingAmount + report.pendingAmount,
            status |-> "draft",
            expenses |-> before.expenses \o Populated(exps, report.expenses) ]

\* the answer of createQuarterlyReport; year and quarter 0: missing.  A second
\* QuarterlyReport of the same user, quarter and year is a duplicate key:
\* QuarterlyReport.create throws and the catch answers 500.
QuarterlyCode(u, quarter, year) ==
  IF year = 0 \/ quarter = 0 THEN 400
  ELSE IF quarter < 1 \/ quarter > 4 THEN 400
  ELSE IF MonthlyReports(reports, u, quarter, year) = {} THEN 404
  ELSE IF ~QuarterlyValidates(quarter, year) THEN 500
  ELSE IF QuarterlyKey(u, quarter, year) \in DOMAIN quarterly THEN 500
  ELSE 201

\* the QuarterlyReport collection createQuarterlyReport leaves
QuarterlyOutcome(u, quarter, year, order) ==
  IF QuarterlyCode(u, quarter, year) = 201
  THEN (QuarterlyKey(u, quarter, year) :> Aggregate(reports, expenses, order))
          @@ quarterly
  ELSE quarterly

\* POST /reports/quarterly
createQuarterlyReport(u, quarter, year) ==
  /\ \E order \in FindOrders(MonthlyReports(reports, u, quarter, year)) :
        quarterly' = QuarterlyOutcome(u, quarter, year, order)
  /\ res' = [op |-> "createQuarterlyReport", code |-> QuarterlyCode(u, quarter, year)]
  /\ data' = <<>>
  /\ UNCHANGED <<expenses, reports, nextId, inflight, categories>>

\* ---- the category handlers ------------------------------------------------
\* the budget limit a handler builds from the fields of a body
MakeLimit(body, isActive) ==
  [ amount |-> body.amount,
    period |-> body.period,
    startDate |-> body.startDate,
    endDate |-> EndDate(body.startDate, body.period),
    isActive |-> isActive,
    notificationThreshold |-> IF body.notificationThreshold # 0
                              THEN body.notificationThreshold
                              ELSE DefaultThreshold ]

\* BudgetLimitSchema validators, run by save and create
LimitValidates(limit) ==
  /\ limit.amount >= 0
  /\ limit.period \in Periods
  /\ limit.startDate # NoDate
  /\ limit.notificationThreshold >= 1 /\ limit.notificationThreshold <= 100

\* body of addBudgetLimit: amount, period, startDate and notificationThreshold
\* (0: missing)
LimitBodies ==
  [ amount : {0, 50},
    period : {"monthly", "quarterly"},
    startDate : {Jan10},
    notificationThreshold : {0} ]

\* the handlers of the category routes touch nothing but categories
OnlyCategories == UNCHANGED <<expenses, reports, nextId, inflight, quarterly>>

\* POST /:id/budget, admin only: the limit is pushed and the category saved
addBudgetLimit(u, c, body) ==
  /\ OnlyCategories
  /\ data' = <<>>
  /\ IF Role(u) # "admin"
     THEN /\ res' = [op |-> "addBudgetLimit", code |-> 403]
          /\ UNCHANGED categories
     ELSE IF c \notin DOMAIN categories
     THEN /\ res' = [op |-> "addBudgetLimit", code |-> 404]
          /\ UNCHANGED categories
     ELSE IF ~LimitValidates(MakeLimit(body, TRUE))
     THEN /\ res' = [op |-> "addBudgetLimit", code |-> 400]
          /\ UNCHANGED categories
     ELSE /\ Len(categories[c].budgetLimits) < MaxLimits
          /\ res' = [op |-> "addBudgetLimit", code |-> 201]
          /\ categories' = [categories EXCEPT ![c].budgetLimits =
                              Append(@, MakeLimit(body, TRUE))]

\* category.budgetLimits.id(budgetId): the index of the limit whose _id is
\* budgetId.  BudgetLimitSchema has _id: false, so no limit has an _id.
LimitIndex(limits, budgetId) == 0

\* body of updateBudgetLimit: amount (0: missing), period ("none": missing),
\* startDate (NoDate: missing), isActive ("none": missing),
\* notificationThreshold (0: missing)
LimitUpdateBodies ==
  [ amount : {0, 50},
    period : {"none", "monthly"},
    startDate : {NoDate, Jan10},
    isActive : {"none", "false"},
    notificationThreshold : {0} ]

\* "Update fields" and "If period or start date changes, recalculate end date"
LimitAfterUpdate(limit, body) ==
  LET start == IF body.startDate # NoDate THEN body.startDate ELSE limit.startDate
      period == IF body.period # "none" THEN body.period ELSE limit.period
      moved == body.period # "none" \/ body.startDate # NoDate
  IN [ amount |-> IF body.amount # 0 THEN body.amount ELSE limit.amount,
       notificationThreshold |-> IF body.notificationThreshold # 0
                                 THEN body.notificationThreshold
                                 ELSE limit.notificationThreshold,
       isActive |-> IF body.isActive # "none" THEN body.isActive = "true"
                    ELSE limit.isActive,
       period |-> IF moved THEN period ELSE limit.period,
       startDate |-> IF moved THEN start ELSE limit.startDate,
       endDate |-> IF moved THEN EndDate(start, period) ELSE limit.endDate ]

\* PUT /:id/budget/:budgetId, admin only
updateBudgetLimit(u, c, budgetId, body) ==
  /\ OnlyCategories
  /\ data' = <<>>
  /\ IF Role(u) # "admin"
     THEN /\ res' = [op |-> "updateBudgetLimit", code |-> 403]
          /\ UNCHANGED categories
     ELSE IF c \notin DOMAIN categories
     THEN /\ res' = [op |-> "updateBudgetLimit", code |-> 404]
          /\ UNCHANGED categories
     ELSE IF LimitIndex(categories[c].budgetLimits, budgetId) = 0
     THEN /\ res' = [op |-> "updateBudgetLimit", code |-> 404]
          /\ UNCHANGED categories
     ELSE LET i == LimitIndex(categories[c].budgetLimits, budgetId)
              limit == LimitAfterUpdate(categories[c].budgetLimits[i], body)
          IN IF ~LimitValidates(limit)
             THEN /\ res' = [op |-> "updateBudgetLimit", code |-> 400]
                  /\ UNCHANGED categories
             ELSE /\ res' = [op |-> "updateBudgetLimit", code |-> 200]
                  /\ categories' = [categories EXCEPT ![c].budgetLimits[i] = limit]

\* the :budgetId of a request: whatever the client holds for a limit
BudgetIds == 1..MaxLimits

\* budgetLimit.remove(): the list without its i-th limit
RemoveAt(limits, i) ==
  [ j \in 1..(Len(limits) - 1) |-> IF j < i THEN limits[j] ELSE limits[j + 1] ]

\* the answer of deleteBudgetLimit
DeleteLimitCode(u, c, budgetId) ==
  IF Role(u) # "admin" THEN 403
  ELSE IF c \notin DOMAIN categories THEN 404
  ELSE IF LimitIndex(categories[c].budgetLimits, budgetId) = 0 THEN 404
  ELSE 200

\* the categories deleteBudgetLimit leaves
DeleteLimitOutcome(u, c, budgetId) ==
  IF DeleteLimitCode(u, c, budgetId) = 200
  THEN [categories EXCEPT ![c].budgetLimits =
          RemoveAt(@, LimitIndex(categories[c].budgetLimits, budgetId))]
  ELSE categories

\* DELETE /:id/budget/:budgetId, admin only
deleteBudgetLimit(u, c, budgetId) ==
  /\ OnlyCategories
  /\ data' = <<>>
  /\ res' = [op |-> "deleteBudgetLimit", code |-> DeleteLimitCode(u, c, budgetId)]
  /\ categories' = DeleteLimitOutcome(u, c, budgetId)

\* an overlap test without the case of a range that encloses the other
OverlapsAtEnds(startDate, endDate, existing) ==
  \/ /\ DateValue(startDate) >= DateValue(existing.startDate)
     /\ DateValue(startDate) <= DateValue(existing.endDate)
  \/ /\ DateValue(endDate) >= DateValue(existing.startDate)
     /\ DateValue(endDate) <= DateValue(existing.endDate)

\* "Check if date ranges overlap": the three cases of createCategory and
\* updateCategory
Overlaps(startDate, endDate, existing) ==
  \/ /\ DateValue(startDate) >= DateValue(existing.startDate)
     /\ DateValue(startDate) <= DateValue(existing.endDate)
  \/ /\ DateValue(endDate) >= DateValue(existing.startDate)
     /\ DateValue(endDate) <= DateValue(existing.endDate)
  \/ /\ DateValue(startDate) <= DateValue(existing.startDate)
     /\ DateValue(endDate) >= DateValue(existing.endDate)

\* one budgetLimits entry of a category body: amount, period, startDate,
\* isActive and notificationThreshold (0: missing)
CategoryLimitBodies ==
  [ amount : {50},
    period : {"monthly", "quarterly"},
    startDate : {Jan10, Feb10},
    isActive : BOOLEAN,
    notificationThreshold : {0} ]

CategoryBodies ==
  {<<>>} \cup { <<a>> : a \in CategoryLimitBodies }
         \cup { <<a, b>> : a \in CategoryLimitBodies, b \in CategoryLimitBodies }

\* the loop over req.body.budgetLimits: ok with the processed limits, or not
\* ok at the first limit that misses a field, has an amount <= 0 or a period
\* that is none of the three, or overlaps a processed limit of its period
RECURSIVE ProcessLimits(_, _)
ProcessLimits(bodies, processed) ==
  IF bodies = <<>> THEN [ok |-> TRUE, limits |-> processed]
  ELSE LET body == Head(bodies)
           limit == MakeLimit(body, body.isActive)
       IN IF body.amount = 0 \/ body.period = "none" \/ body.startDate = NoDate
          THEN [ok |-> FALSE, limits |-> <<>>]
          ELSE IF body.amount <= 0 \/ body.period \notin Periods
          THEN [ok |-> FALSE, limits |-> <<>>]
          ELSE IF \E i \in 1..Len(processed) :
                     /\ processed[i].period = limit.period
                     /\ Overlaps(limit.startDate, limit.endDate, processed[i])
          THEN [ok |-> FALSE, limits |-> <<>>]
          ELSE ProcessLimits(Tail(bodies), Append(processed, limit))

\* POST /categories, admin only; the category's name is its id
createCategory(u, c, bodies) ==
  /\ OnlyCategories
  /\ data' = <<>>
  /\ IF Role(u) # "admin"
     THEN /\ res' = [op |-> "createCategory", code |-> 403]
          /\ UNCHANGED categories
     ELSE IF c \in DOMAIN categories
     THEN /\ res' = [op |-> "createCategory", code |-> 400]
          /\ UNCHANGED categories
     ELSE IF ~ProcessLimits(bodies, <<>>).ok
     THEN /\ res' = [op |-> "createCategory", code |-> 400]
          /\ UNCHANGED categories
     ELSE /\ res' = [op |-> "createCategory", code |-> 201]
          /\ categories' = (c :> NewCategory(ProcessLimits(bodies, <<>>).limits))
                              @@ categories

\* PUT /categories/:id, admin only: a non-empty budgetLimits replaces the list
updateCategory(u, c, bodies) ==
  /\ OnlyCategories
  /\ data' = <<>>
  /\ IF Role(u) # "admin"
     THEN /\ res' = [op |-> "updateCategory", code |-> 403]
          /\ UNCHANGED categories
     ELSE IF c \notin DOMAIN categories
     THEN /\ res' = [op |-> "updateCategory", code |-> 404]
          /\ UNCHANGED categories
     ELSE IF ~ProcessLimits(bodies, <<>>).ok
     THEN /\ res' = [op |-> "updateCategory", code |-> 400]
          /\ UNCHANGED categories
     ELSE /\ res' = [op |-> "updateCategory", code |-> 200]
          /\ categories' =
               IF bodies = <<>> THEN categories
               ELSE [categories EXCEPT ![c].budgetLimits =
                       ProcessLimits(bodies, <<>>).limits]

\* GET /:id/budget/usage, any user
getBudgetUsage(u, c) ==
  /\ OnlyCategories
  /\ UNCHANGED categories
  /\ res' = [op |-> "getBudgetUsage", code |-> UsageRoute(u, expenses, categories, c).code]
  /\ data' = UsageRoute(u, expenses, categories, c).data

\* POST /:id/budget/update-usage with the token of a user or the internal one
updateBudgetUsage(token, c) ==
  /\ OnlyCategories
  /\ data' = <<>>
  /\ res' = [op |-> "updateBudgetUsage",
             code |-> UpdateUsageRoute(token, expenses, categories, c).code]
  /\ categories' = UpdateUsageRoute(token, expenses, categories, c).categories

\* ---- two requests at once ----------------------------------------------
\* Every await of a handler is a point where another request can run.  A
\* request is followed through the awaits of its report part: the write of
\* the Expense, Report.findOne into a local document, and report.save() or
\* Report.create.  The Expense is read and written in one step.
Procs == {1, 2}
NoReport ==
  [ totalDistance |-> 0, totalExpenseAmount |-> 0, reimbursedAmount |-> 0,
    pendingAmount |-> 0, status |-> "none", submittedAt |-> FALSE,
    expenses |-> <<>> ]
NoExpense ==
  [ user |-> NoUser, distance |-> 0, costPerKm |-> 0, totalCost |-> 0,
    journeyDate |-> NoDate, category |-> NoCategory ]
Idle ==
  [ pc |-> "idle", op |-> "none", id |-> 0,
    previous |-> NoExpense, expense |-> NoExpense, report |-> NoReport ]

ExpenseKey(expense) ==
  ReportKey(expense.user, getMonth(expense.journeyDate),
            getFullYear(expense.journeyDate))

\* a save that adds this request's change to the stored totals
SaveAdding(stored, found, local) ==
  [ stored EXCEPT
      !.totalDistance = @ + local.totalDistance - found.totalDistance,
      !.totalExpenseAmount = @ + local.totalExpenseAmount - found.totalExpenseAmount,
      !.pendingAmount = @ + local.pendingAmount - found.pendingAmount,
      !.status = IF local.status # found.status THEN local.status ELSE @,
      !.expenses = @ \o SubSeq(local.expenses, Len(found.expenses) + 1,
                               Len(local.expenses)) ]

\* report.save(): the paths modified since findOne are written with their
\* local values, the pushed ids are appended to the stored array
Save(stored, found, local) ==
  [ stored EXCEPT
      !.totalDistance =
         IF local.totalDistance # found.totalDistance THEN local.totalDistance ELSE @,
      !.totalExpenseAmount =
         IF local.totalExpenseAmount # found.totalExpenseAmount
         THEN local.totalExpenseAmount ELSE @,
      !.pendingAmount =
         IF local.pendingAmount # found.pendingAmount THEN local.pendingAmount ELSE @,
      !.status = IF local.status # found.status THEN local.status ELSE @,
      !.expenses = @ \o SubSeq(local.expenses, Len(found.expenses) + 1,
                               Len(local.expenses)) ]

\* createExpense up to Expense.create
StartCreate(p, u, body) ==
  LET expense == ExpensePreSave(
         [ user |-> u, distance |-> body.distance, costPerKm |-> body.costPerKm,
           totalCost |-> body.distance * body.costPerKm,
           journeyDate |-> body.journeyDate, category |-> body.category ])
  IN /\ inflight.req[p].pc = "idle"
     /\ inflight.started < MaxRequests
     /\ nextId <= MaxExpenses
     /\ body.distance # 0 /\ ~IsFuture(body.journeyDate)
     /\ expenses' = (nextId :> expense) @@ expenses
     /\ nextId' = nextId + 1
     /\ inflight' = [ started |-> inflight.started + 1,
                      req |-> [inflight.req EXCEPT ![p] =
                                 [ pc |-> "find", op |-> "createExpense",
                                   id |-> nextId, previous |-> NoExpense,
                                   expense |-> expense, report |-> NoReport ]] ]
     /\ UNCHANGED <<reports, res, categories, data, quarterly>>

\* updateExpense up to Expense.findByIdAndUpdate, month and year unchanged
StartUpdate(p, u, id, body) ==
  /\ inflight.req[p].pc = "idle"
  /\ inflight.started < MaxRequests
  /\ id \in DOMAIN expenses
  /\ expenses[id].user = u \/ Role(u) = "admin"
  /\ SamePeriod(expenses[id].journeyDate,
                ExpenseAfterUpdate(expenses[id], body).journeyDate)
  /\ expenses' = [expenses EXCEPT ![id] = ExpenseAfterUpdate(@, body)]
  /\ inflight' = [ started |-> inflight.started + 1,
                   req |-> [inflight.req EXCEPT ![p] =
                              [ pc |-> "find", op |-> "updateExpense",
                                id |-> id, previous |-> expenses[id],
                                expense |-> ExpenseAfterUpdate(expenses[id], body),
                                report |-> NoReport ]] ]
  /\ UNCHANGED <<reports, nextId, res, categories, data, quarterly>>

\* let report = await Report.findOne({user, month, year})
FindReport(p) ==
  LET r == inflight.req[p]
      key == ExpenseKey(r.expense)
  IN /\ r.pc = "find"
     /\ inflight' = [inflight EXCEPT !.req[p].pc = "save",
                                     !.req[p].report =
                                        IF key \in DOMAIN reports
                                        THEN reports[key] ELSE NoReport]
     /\ UNCHANGED <<expenses, reports, nextId, res, categories, data, quarterly>>

\* the local document when save is called
LocalReport(r) ==
  LET key == ExpenseKey(r.expense) IN
  IF r.op = "createExpense"
  THEN ReportAfterCreate(key :> r.report, r.expense.user, r.expense, r.id)[key]
  ELSE ReportsSamePeriod(key :> r.report, r.previous, r.expense)[key]

\* if (report) {...; await report.save()} else {await Report.create(...)}
\* and the response.  Report.create of a key that another request created in
\* the meantime breaks the unique index: the error is caught, 500.
SaveReport(p) ==
  LET r == inflight.req[p]
      key == ExpenseKey(r.expense)
      check == checkBudgetLimits(r.expense, expenses, categories)
      success == IF r.op = "createExpense" THEN 201 ELSE 200
      answer == /\ res' = [op |-> r.op, code |-> IF check.threw THEN 500 ELSE success]
                /\ categories' = check.categories
                /\ data' = check.alerts
                /\ UNCHANGED quarterly
  IN /\ r.pc = "save"
     /\ inflight' = [inflight EXCEPT !.req[p] = Idle]
     /\ UNCHANGED <<expenses, nextId>>
     /\ IF r.report # NoReport
        THEN /\ reports' = [reports EXCEPT ![key] = Save(@, r.report, LocalReport(r))]
             /\ answer
        ELSE IF r.op = "updateExpense"
        THEN /\ reports' = reports
             /\ answer
        ELSE IF key \in DOMAIN reports
        THEN /\ reports' = reports
             /\ res' = [op |-> r.op, code |-> 500]
             /\ NoBudgetCheck
        ELSE /\ reports' = (key :> NewReport(r.expense, r.id)) @@ reports
             /\ answer

\* the database as seeded: no expense, no report, the category c1
Init ==
  /\ expenses = <<>>
  /\ reports = <<>>
  /\ nextId = 1
  /\ res = [op |-> "none", code |-> 0]
  /\ inflight = [started |-> 0, req |-> [p \in Procs |-> Idle]]
  /\ categories = ("c1" :> NewCategory(<<>>))
  /\ data = <<>>
  /\ quarterly = <<>>

\* ---- the books -----------------------------------------------------------
\* the totals of report r are the sums over the expenses of its list
TotalsMatch(r) ==
  /\ r.totalDistance = SumDistance(expenses, r.expenses)
  /\ r.totalExpenseAmount = SumTotalCost(expenses, r.expenses)

\* C1: after every sequence of createExpense, updateExpense and deleteExpense
\* calls, each existing Report has totalDistance and totalExpenseAmount equal
\* to the sums of distance and totalCost over the expenses of its list.
C1_ReportTotalsMatch == \A k \in DOMAIN reports : TotalsMatch(reports[k])

\* the sum of the field total over the reports of user u
RECURSIVE SumOfReports(_, _, _)
SumOfReports(reps, keys, total) ==
  IF keys = {} THEN 0
  ELSE LET k == CHOOSE x \in keys : TRUE
       IN (IF total = "distance" THEN reps[k].totalDistance
           ELSE reps[k].totalExpenseAmount)
          + SumOfReports(reps, keys \ {k}, total)

OwnerTotal(reps, u, total) ==
  SumOfReports(reps, {k \in DOMAIN reps : k[1] = u}, total)

InList(seq, id) == \E i \in 1..Len(seq) : seq[i] = id

KeyOf(expense) ==
  ReportKey(expense.user, getMonth(expense.journeyDate),
            getFullYear(expense.journeyDate))

\* the step moves expense id to another (month, year), distance and rate kept
MovesPeriod(id) ==
  /\ id \in DOMAIN expenses
  /\ id \in DOMAIN expenses'
  /\ ~SamePeriod(expenses[id].journeyDate, expenses'[id].journeyDate)
  /\ expenses'[id].distance = expenses[id].distance
  /\ expenses'[id].costPerKm = expenses[id].costPerKm

\* what the claim says of such a step
MoveCarriesTotals(id) ==
  LET e == expenses[id]
      old == KeyOf(expenses[id])
      new == KeyOf(expenses'[id])
  IN /\ old \in DOMAIN reports =>
          /\ old \in DOMAIN reports'
          /\ reports'[old].totalDistance = reports[old].totalDistance - e.distance
          /\ reports'[old].totalExpenseAmount
               = reports[old].totalExpenseAmount - e.totalCost
          /\ ~InList(reports'[old].expenses, id)
     /\ new \in DOMAIN reports'
     /\ InList(reports'[new].expenses, id)
     /\ reports'[new].totalDistance
          = (IF new \in DOMAIN reports THEN reports[new].totalDistance ELSE 0)
            + e.distance
     /\ reports'[new].totalExpenseAmount
          = (IF new \in DOMAIN reports THEN reports[new].totalExpenseAmount ELSE 0)
            + e.totalCost
     /\ OwnerTotal(reports', e.user, "distance") = OwnerTotal(reports, e.user, "distance")
     /\ OwnerTotal(reports', e.user, "amount") = OwnerTotal(reports, e.user, "amount")

\* C9: when updateExpense moves an expense to another (month, year) without
\* changing distance or rate, the old Report loses exactly the expense's
\* distance and totalCost and its reference, the target Report (found or
\* created) gains them, and the sum of the owner's totals is unchanged.
C9_MoveKeepsTotals ==
  [][\A id \in ExpenseIds : MovesPeriod(id) => MoveCarriesTotals(id)]_vars

\* C10: when updateExpense moves the only expense of a Report to another
\* (month, year) and answers with success, the old Report is deleted and no
\* Report with an empty expenses list exists afterwards.
C10_MoveDeletesEmptiedReport ==
  [][\A id \in ExpenseIds :
       ( /\ MovesPeriod(id)
         /\ res'.code = 200
         /\ KeyOf(expenses[id]) \in DOMAIN reports
         /\ reports[KeyOf(expenses[id])].expenses = <<id>> )
       => /\ KeyOf(expenses[id]) \notin DOMAIN reports'
          /\ \A k \in DOMAIN reports' : reports'[k].expenses # <<>>]_vars

\* the step deletes expense id with success
Deletes(id) ==
  /\ res' = [op |-> "deleteExpense", code |-> 200]
  /\ id \in DOMAIN expenses
  /\ id \notin DOMAIN expenses'

\* C11: deleteExpense on the last expense referenced by a Report deletes that
\* Report; when other expenses remain, the Report is kept with the reference
\* removed and totalDistance and totalExpenseAmount reduced by the deleted
\* expense's distance and totalCost.
C11_DeleteUpdatesReport ==
  [][\A id \in ExpenseIds :
       Deletes(id) =>
         \A k \in DOMAIN reports :
            InList(reports[k].expenses, id) =>
               IF FilterOut(reports[k].expenses, id) = <<>>
               THEN k \notin DOMAIN reports'
               ELSE /\ k \in DOMAIN reports'
                    /\ reports'[k].expenses = FilterOut(reports[k].expenses, id)
                    /\ reports'[k].totalDistance
                         = reports[k].totalDistance - expenses[id].distance
                    /\ reports'[k].totalExpenseAmount
                         = reports[k].totalExpenseAmount - expenses[id].totalCost]_vars

\* the step puts expense id on the list of the Report of key k
Enlists(k, id) ==
  /\ k \in DOMAIN reports'
  /\ InList(reports'[k].expenses, id)
  /\ k \in DOMAIN reports => ~InList(reports[k].expenses, id)

Next ==
  \/ \E body \in CreateBodies : createExpense("u1", body)
  \/ \E u \in Users, id \in ExpenseIds, body \in UpdateBodies :
        updateExpense(u, id, body)
  \/ \E u \in Users, id \in ExpenseIds : deleteExpense(u, id)

Spec == Init /\ [][Next]_vars

\* bodies of two past months, at the rate 1
PlainCreateBodies ==
  [ distance : 1..MaxDistance,
    costPerKm : {1},
    totalCost : {0},
    journeyDate : {Jan10, Feb10},
    category : {"c1"} ]

\* ---- the expense handlers, update bodies that carry a user field --------
OwnerUpdateBodies ==
  [ distance : 0..MaxDistance,
    costPerKm : {0},
    totalCost : {0},
    journeyDate : {NoDate, Jan10, Feb10},
    user : {NoUser, "u3"},
    category : {NoCategory} ]

NextOwner ==
  \/ \E body \in PlainCreateBodies : createExpense("u1", body)
  \/ \E u \in Users, id \in ExpenseIds, body \in OwnerUpdateBodies :
        updateExpense(u, id, body)
  \/ \E u \in Users, id \in ExpenseIds : deleteExpense(u, id)

SpecOwner == Init /\ [][NextOwner]_vars

\* ---- the status workflow over the reports of u1 -------------------------
StatusUpdateBodies ==
  [ distance : 0..MaxDistance,
    costPerKm : {0},
    totalCost : {0},
    journeyDate : {NoDate, Jan10, Feb10},
    user : {NoUser},
    category : {NoCategory} ]

StatusKeys == { ReportKey("u1", getMonth(d), getFullYear(d)) : d \in {Jan10, Feb10} }

\* a reimbursedAmount comes with an approval only
ApprovalBodies ==
  { b \in StatusBodies : b.reimbursedAmount # NoAmount => b.status = "approved" }

NextStatus ==
  \/ \E body \in PlainCreateBodies : createExpense("u1", body)
  \/ \E u \in Users, id \in ExpenseIds, body \in StatusUpdateBodies :
        updateExpense(u, id, body)
  \/ \E u \in Users, id \in ExpenseIds : deleteExpense(u, id)
  \/ \E u \in Users, key \in StatusKeys, body \in ApprovalBodies :
        updateReportStatus(u, key, body)

SpecStatus == Init /\ [][NextStatus]_vars

\* ---- concurrent expense requests of one user ---------------------------
RaceUpdateBodies ==
  [ distance : 1..MaxDistance,
    costPerKm : {0},
    totalCost : {0},
    journeyDate : {NoDate},
    user : {NoUser},
    category : {NoCategory} ]

NextRace ==
  \/ \E p \in Procs, body \in PlainCreateBodies : StartCreate(p, "u1", body)
  \/ \E p \in Procs, id \in ExpenseIds, body \in RaceUpdateBodies :
        StartUpdate(p, "u1", id, body)
  \/ \E p \in Procs : FindReport(p)
  \/ \E p \in Procs : SaveReport(p)

SpecRace == Init /\ [][NextRace]_vars

\* ---- the budget limits of the categories, no expenses --------------------
NextCategory ==
  \/ \E u \in {"u1", "u2"}, c \in CategoryIds, body \in LimitBodies :
        addBudgetLimit(u, c, body)
  \/ \E u \in {"u1", "u2"}, c \in CategoryIds, i \in 1..MaxLimits,
        body \in LimitUpdateBodies : updateBudgetLimit(u, c, i, body)
  \/ \E u \in {"u1", "u2"}, bodies \in CategoryBodies : createCategory(u, "c2", bodies)
  \/ \E u \in {"u1", "u2"}, bodies \in CategoryBodies : updateCategory(u, "c2", bodies)
  \/ \E u \in {"u1", "u2"}, c \in CategoryIds, budgetId \in BudgetIds :
        deleteBudgetLimit(u, c, budgetId)

SpecCategory == Init /\ [][NextCategory]_vars

\* ---- budget usage: the limits of c1 and the expenses of u1 ---------------
\* costs of 15, 20 and 30 against limits of 50: usages of 30, 40 (the
\* threshold), 45, 50 (the full amount) and 60
BudgetCreateBodies ==
  [ distance : {15, 20, 30},
    costPerKm : {1},
    totalCost : {0},
    journeyDate : {Jan10, Feb10},
    category : {"c1"} ]

\* limits of January, one of them switched off
UsageCategoryBodies ==
  { bodies \in CategoryBodies :
      \A i \in 1..Len(bodies) :
         bodies[i].startDate = Jan10 /\ (bodies[i].isActive => bodies[i].period = "monthly") }

\* a change of the distance to 30
BudgetUpdateBodies ==
  [ distance : {30},
    costPerKm : {0},
    totalCost : {0},
    journeyDate : {NoDate},
    user : {NoUser},
    category : {NoCategory} ]

NextBudget ==
  \/ \E body \in BudgetCreateBodies : createExpense("u1", body)
  \/ \E id \in ExpenseIds, body \in BudgetUpdateBodies : updateExpense("u1", id, body)
  \/ \E body \in LimitBodies : addBudgetLimit("u2", "c1", body)
  \/ \E bodies \in UsageCategoryBodies : updateCategory("u2", "c1", bodies)
  \/ \E u \in Users, c \in CategoryIds : getBudgetUsage(u, c)
  \/ \E token \in Tokens, c \in CategoryIds : updateBudgetUsage(token, c)

SpecBudget == Init /\ [][NextBudget]_vars

\* ---- requests that carry a totalCost of their own -------------------------
CostCreateBodies ==
  [ distance : 1..MaxDistance,
    costPerKm : 1..MaxCostPerKm,
    totalCost : {0, 5},
    journeyDate : {Jan10, Feb10},
    category : {"c1"} ]

CostUpdateBodies ==
  [ distance : 0..MaxDistance,
    costPerKm : 0..MaxCostPerKm,
    totalCost : {0, 5},
    journeyDate : {NoDate},
    user : {NoUser},
    category : {NoCategory} ]

NextCost ==
  \/ \E body \in CostCreateBodies : createExpense("u1", body)
  \/ \E id \in ExpenseIds, body \in CostUpdateBodies : updateExpense("u1", id, body)
  \/ \E id \in ExpenseIds : deleteExpense("u1", id)

SpecCost == Init /\ [][NextCost]_vars

\* ---- requests dated after the present ------------------------------------
FutureCreateBodies ==
  [ distance : 1..MaxDistance,
    costPerKm : {1},
    totalCost : {0},
    journeyDate : {Jan10, Feb10, Feb20},
    category : {"c1"} ]

FutureUpdateBodies ==
  [ distance : 0..MaxDistance,
    costPerKm : {0},
    totalCost : {0},
    journeyDate : {NoDate, Jan10, Feb20},
    user : {NoUser},
    category : {NoCategory} ]

NextFuture ==
  \/ \E body \in FutureCreateBodies : createExpense("u1", body)
  \/ \E id \in ExpenseIds, body \in FutureUpdateBodies : updateExpense("u1", id, body)
  \/ \E id \in ExpenseIds : deleteExpense("u1", id)

SpecFuture == Init /\ [][NextFuture]_vars

\* ---- the quarterly report of u1 over monthly reports in every status -------
QuarterlyStatusBodies ==
  { [status |-> "submitted", comments |-> "none", reimbursedAmount |-> NoAmount],
    [status |-> "approved", comments |-> "none", reimbursedAmount |-> 1] }

Quarters == {0, 1, 2, 5}
Years == {0, getFullYear(Now)}

NextQuarterly ==
  \/ \E body \in PlainCreateBodies : createExpense("u1", body)
  \/ \E id \in ExpenseIds : deleteExpense("u1", id)
  \/ \E u \in {"u1", "u2"}, key \in StatusKeys, body \in QuarterlyStatusBodies :
        updateReportStatus(u, key, body)
  \/ \E u \in {"u1", "u2"}, quarter \in Quarters, year \in Years :
        createQuarterlyReport(u, quarter, year)

SpecQuarterly == Init /\ [][NextQuarterly]_vars

\* ---- the end dates of budget limits ----------------------------------------
EndDateBodies ==
  [ amount : {50},
    period : Periods,
    startDate : StartDates,
    notificationThreshold : {0} ]

EndDateUpdateBodies ==
  [ amount : {0},
    period : {"none", "yearly"},
    startDate : {NoDate, Jan31},
    isActive : {"none"},
    notificationThreshold : {0} ]

EndDateCategoryBodies ==
  { << [ amount |-> b.amount, period |-> b.period, startDate |-> b.startDate,
         isActive |-> TRUE, notificationThreshold |-> 0 ] >> : b \in EndDateBodies }

NextEndDate ==
  \/ \E body \in EndDateBodies : addBudgetLimit("u2", "c1", body)
  \/ \E i \in 1..MaxLimits, body \in EndDateUpdateBodies :
        updateBudgetLimit("u2", "c1", i, body)
  \/ \E bodies \in EndDateCategoryBodies : createCategory("u2", "c2", bodies)
  \/ \E bodies \in EndDateCategoryBodies : updateCategory("u2", "c1", bodies)

SpecEndDate == Init /\ [][NextEndDate]_vars

\* ---- status requests that carry a total of their own ------------------------
ForgedStatusBodies ==
  [ status : {"draft", "submitted"},
    comments : {"none"},
    reimbursedAmount : {NoAmount},
    totalExpenseAmount : {NoAmount, 7} ]

NextForged ==
  \/ \E body \in PlainCreateBodies : createExpense("u1", body)
  \/ \E u \in {"u1", "u3"}, key \in StatusKeys, body \in ForgedStatusBodies :
        updateReportStatus(u, key, body)

SpecForged == Init /\ [][NextForged]_vars

\* ---- the expenses router as mounted ------------------------------------------
NextMounted ==
  \/ \E body \in PlainCreateBodies : MountedCreateExpense("u1", body)
  \/ \E u \in Users, id \in ExpenseIds, body \in StatusUpdateBodies :
        MountedUpdateExpense(u, id, body)
  \/ \E u \in Users, id \in ExpenseIds : MountedDeleteExpense(u, id)

SpecMounted == Init /\ [][NextMounted]_vars

\* ---- the status workflow: properties ------------------------------------
\* The properties of updateReportStatus are stated of its answer and of the
\* collection it leaves, for every request in every reachable state.
ExpenseOps == {"createExpense", "updateExpense", "deleteExpense"}
Kept == DOMAIN reports \cap DOMAIN reports'
Refused(u, k, body) ==
  StatusCode(u, k, body) >= 400 /\ StatusOutcome(u, k, body) = reports
Accepted(u, k, body) ==
  /\ StatusCode(u, k, body) = 200
  /\ StatusOutcome(u, k, body)[k].status = body.status

\* C3: an expense mutation that modifies a submitted or approved Report
\* without deleting it leaves it in draft (same-period and cross-period
\* branches alike); a draft or rejected Report keeps its status.
C3_MutationDemotes ==
  [][res'.op \in ExpenseOps =>
       \A k \in Kept :
          /\ ( /\ reports[k].status \in {"submitted", "approved"}
               /\ reports'[k] # reports[k] )
             => reports'[k].status = "draft"
          /\ reports[k].status \in {"draft", "rejected"}
             => reports'[k].status = reports[k].status]_vars

C3_Witness ==
  /\ res = [op |-> "updateExpense", code |-> 200]
  /\ \A k \in StatusKeys :
        /\ k \in DOMAIN reports
        /\ reports[k].status = "draft"
        /\ reports[k].submittedAt
        /\ reports[k].expenses # <<>>

\* C4 as claimed: a Report comes to draft only by an expense mutation on a
\* submitted or approved Report, never by a direct status request.
C4_DraftOnlyByMutation ==
  [][\A k \in Kept :
       (reports[k].status # "draft" /\ reports'[k].status = "draft")
       => /\ res'.op \in ExpenseOps
          /\ reports[k].status \in {"submitted", "approved"}]_vars

\* C4 as amended: a Report comes to draft only by an expense mutation on a
\* submitted or approved Report, or by a direct updateReportStatus request
\* with status draft.
C4_DraftByMutationOrRequest ==
  [][\A k \in Kept :
       (reports[k].status # "draft" /\ reports'[k].status = "draft")
       => \/ /\ res'.op \in ExpenseOps
             /\ reports[k].status \in {"submitted", "approved"}
          \/ /\ res' = [op |-> "updateReportStatus", code |-> 200]
             /\ \E u \in Users, body \in ApprovalBodies :
                   /\ body.status = "draft"
                   /\ reports' = StatusOutcome(u, k, body)]_vars

C4_Witness ==
  /\ res = [op |-> "updateReportStatus", code |-> 200]
  /\ \E k \in DOMAIN reports :
        /\ reports[k].status = "draft"
        /\ reports[k].reimbursedAmount > 0
        /\ reports[k].pendingAmount
             = reports[k].totalExpenseAmount - reports[k].reimbursedAmount

\* the three transitions of the workflow
Allowed(from, to) ==
  \/ from = "draft" /\ to = "submitted"
  \/ from = "submitted" /\ to \in {"approved", "rejected"}

C6_SubmitOwnerDraft ==
  \A u \in Users, k \in StatusKeys, body \in ApprovalBodies :
     body.status = "submitted"
     => IF k \in DOMAIN reports /\ k[1] = u /\ reports[k].status = "draft"
        THEN /\ Accepted(u, k, body)
             /\ StatusOutcome(u, k, body)[k].submittedAt
        ELSE Refused(u, k, body)

C6_Witness ==
  /\ res = [op |-> "updateReportStatus", code |-> 200]
  /\ \E k \in DOMAIN reports :
        reports[k].status = "submitted" /\ reports[k].submittedAt

\* what a decision (approved, rejected) needs according to the claim
MayDecide(u, k, body) ==
  /\ Role(u) = "admin"
  /\ k \in DOMAIN reports
  /\ reports[k].status = "submitted"
  /\ body.status = "rejected" => body.comments \notin {"none", ""}

\* C7: a request for approved or rejected succeeds only from an admin on a
\* submitted Report, a rejection only with a non-empty comment; in every
\* other case it is rejected and the Report is unchanged.
C7_DecideAdminSubmitted ==
  \A u \in Users, k \in StatusKeys, body \in ApprovalBodies :
     body.status \in {"approved", "rejected"}
     => /\ Accepted(u, k, body) \/ Refused(u, k, body)
        /\ Accepted(u, k, body) => MayDecide(u, k, body)
        /\ body.status = "rejected" => (Accepted(u, k, body) <=> MayDecide(u, k, body))

C7_Witness ==
  /\ res = [op |-> "updateReportStatus", code |-> 200]
  /\ \E k \in DOMAIN reports : reports[k].status = "rejected"

\* C8: an admin approves a submitted Report: a reimbursedAmount above
\* totalExpenseAmount is rejected and changes nothing; one not above it makes
\* pendingAmount = totalExpenseAmount - reimbursedAmount; none makes
\* reimbursedAmount = totalExpenseAmount and pendingAmount = 0.
C8_ApprovalAmounts ==
  \A u \in Users, k \in DOMAIN reports, body \in ApprovalBodies :
     (body.status = "approved" /\ Role(u) = "admin" /\ reports[k].status = "submitted")
     => LET total == reports[k].totalExpenseAmount
            after == StatusOutcome(u, k, body)[k]
        IN IF body.reimbursedAmount = NoAmount
           THEN /\ Accepted(u, k, body)
                /\ after.reimbursedAmount = total
                /\ after.pendingAmount = 0
           ELSE IF body.reimbursedAmount > total
           THEN Refused(u, k, body)
           ELSE /\ Accepted(u, k, body)
                /\ after.reimbursedAmount = body.reimbursedAmount
                /\ after.pendingAmount = total - body.reimbursedAmount

C8_Witness ==
  /\ res = [op |-> "updateReportStatus", code |-> 200]
  /\ \E k \in DOMAIN reports :
        /\ reports[k].status = "approved"
        /\ reports[k].reimbursedAmount > 0
        /\ reports[k].pendingAmount > 0
        /\ reports[k].pendingAmount
             = reports[k].totalExpenseAmount - reports[k].reimbursedAmount

\* ---- concurrent requests: properties ----------------------------------
Quiet == \A p \in Procs : inflight.req[p].pc = "idle"

\* the step is report.save() of request p on a Report it found
Saves(p) ==
  /\ inflight.req[p].pc = "save"
  /\ inflight'.req[p].pc = "idle"
  /\ inflight.req[p].report # NoReport

\* C2: the totals a request saves are those it found plus its own change:
\* what another request saved between its findOne and its save is
\* overwritten, which leaves the totals different from the sum over the
\* referenced expenses (the witness is such an interleaving, completed).
C2_SaveOverwritesTotals ==
  [][\A p \in Procs :
       Saves(p) =>
         LET r == inflight.req[p]
             key == ExpenseKey(r.expense)
             distance == r.expense.distance - r.previous.distance
             cost == r.expense.totalCost - r.previous.totalCost
         IN /\ distance # 0
               => reports'[key].totalDistance = r.report.totalDistance + distance
            /\ cost # 0
               => reports'[key].totalExpenseAmount
                    = r.report.totalExpenseAmount + cost
            /\ ( /\ reports[key].totalDistance # r.report.totalDistance
                 /\ distance # 0 )
               => reports'[key].totalDistance # reports[key].totalDistance + distance]_vars

C2_Witness ==
  /\ Quiet
  /\ \E k \in DOMAIN reports :
        /\ reports[k].expenses = <<1, 2>>
        /\ DOMAIN expenses = {1, 2}
        /\ reports[k].totalDistance # SumDistance(expenses, reports[k].expenses)
        /\ reports[k].totalExpenseAmount # SumTotalCost(expenses, reports[k].expenses)

\* ---- budget limits: properties ------------------------------------------
\* the date ranges of two limits intersect
Intersect(a, b) ==
  /\ DateValue(a.startDate) <= DateValue(b.endDate)
  /\ DateValue(b.startDate) <= DateValue(a.endDate)

\* C13: no category holds two active budget limits of the same period type
\* whose [startDate, endDate] ranges intersect.
C13_NoOverlappingLimits ==
  \A c \in DOMAIN categories :
     LET limits == categories[c].budgetLimits
     IN \A i \in 1..Len(limits), j \in 1..Len(limits) :
           ( /\ i < j
             /\ limits[i].isActive /\ limits[j].isActive
             /\ limits[i].period = limits[j].period )
           => ~Intersect(limits[i], limits[j])

\* ---- budget usage: properties ---------------------------------------------
\* the active limits of a category, in their stored order
ActiveLimits(c) == SelectSeq(categories[c].budgetLimits, LAMBDA l : l.isActive)

\* the status the rule gives to a usage against a limit: the percentage
\* usage / amount * 100 is compared by cross-multiplication
RuleStatus(usage, limit) ==
  IF limit.amount > 0 /\ usage * 100 > 100 * limit.amount THEN "exceeded"
  ELSE IF limit.amount = 0 /\ usage > 0 THEN "exceeded"
  ELSE IF /\ limit.amount > 0
          /\ limit.notificationThreshold * limit.amount <= usage * 100
          /\ usage * 100 <= 100 * limit.amount
  THEN "warning"
  ELSE "normal"

\* the usage of a limit's window, summed expense by expense
WindowUsage(c, limit) ==
  LET in == { id \in DOMAIN expenses :
                /\ expenses[id].category = c
                /\ DateValue(limit.startDate) <= DateValue(expenses[id].journeyDate)
                /\ DateValue(expenses[id].journeyDate) <= DateValue(limit.endDate) }
  IN SumOver(expenses, in)

\* C14: in every state, the answer of getBudgetUsage for a category holds one
\* record for each active limit and none for an inactive one; the record's
\* alertStatus is exceeded above 100 percent, warning from the threshold to
\* 100 percent, normal otherwise (amount 50, threshold 80: 45 warning,
\* 60 exceeded, 30 normal).
C14_AlertStatus ==
  \A c \in DOMAIN categories :
     LET answer == BudgetUsage(expenses, categories, c)
         active == ActiveLimits(c)
     IN /\ Len(answer) = Len(active)
        /\ \A i \in 1..Len(active) :
              /\ answer[i].period = active[i].period
              /\ answer[i].startDate = active[i].startDate
              /\ answer[i].budgetAmount = active[i].amount
              /\ answer[i].alertStatus = RuleStatus(WindowUsage(c, active[i]), active[i])
              /\ ( active[i].amount = 50 /\ active[i].notificationThreshold = 80 ) =>
                    /\ WindowUsage(c, active[i]) = 45 => answer[i].alertStatus = "warning"
                    /\ WindowUsage(c, active[i]) = 60 => answer[i].alertStatus = "exceeded"
                    /\ WindowUsage(c, active[i]) = 30 => answer[i].alertStatus = "normal"

\* getBudgetUsage has answered with the warning record of a limit of 50 used
\* to 45, and with no record for the inactive limit of the category
C14_Witness ==
  /\ res = [op |-> "getBudgetUsage", code |-> 200]
  /\ Len(data) = 1
  /\ data[1].budgetAmount = 50 /\ data[1].currentUsage = 45
  /\ data[1].alertStatus = "warning"
  /\ Len(categories["c1"].budgetLimits) = 2

\* the windows calculateBudgetUsage is asked about: both ends on, before and
\* after the journey dates of the expenses
Windows == { w \in Dates \X Dates : DateValue(w[1]) <= DateValue(w[2]) }

\* what expense id adds to the usage of category c in the window [s, e]
Contribution(id, c, s, e) ==
  IF /\ id \in DOMAIN expenses
     /\ expenses[id].category = c
     /\ DateValue(s) <= DateValue(expenses[id].journeyDate)
     /\ DateValue(expenses[id].journeyDate) <= DateValue(e)
  THEN expenses[id].totalCost
  ELSE 0

RECURSIVE UsageUpTo(_, _, _, _)
UsageUpTo(n, c, s, e) ==
  IF n = 0 THEN 0 ELSE Contribution(n, c, s, e) + UsageUpTo(n - 1, c, s, e)

\* C15: calculateBudgetUsage(categoryId, startDate, endDate) is the sum of
\* totalCost over the expenses of the category dated within the window, both
\* ends included, 0 when there is none, whatever the cached currentUsage
\* says; computing it for getBudgetUsage changes neither expenses, reports
\* nor categories.
C15_UsageIsWindowSum ==
  /\ [] ( \A c \in CategoryIds, w \in Windows :
             calculateBudgetUsage(expenses, c, w[1], w[2])
                = UsageUpTo(nextId, c, w[1], w[2]) )
  /\ [][ res'.op = "getBudgetUsage" =>
            UNCHANGED <<expenses, reports, categories, quarterly>> ]_vars

\* getBudgetUsage has answered 15 for the window that starts on the journey
\* date of one expense and ends before the other's, while the cached usage
\* of the year still says 0
C15_Witness ==
  /\ res = [op |-> "getBudgetUsage", code |-> 200]
  /\ Len(data) >= 1 /\ data[1].startDate = Jan10 /\ data[1].currentUsage = 15
  /\ \E i, j \in DOMAIN expenses :
        /\ expenses[i].category = "c1" /\ expenses[i].journeyDate = Jan10
        /\ expenses[j].category = "c1" /\ expenses[j].journeyDate = Feb10
  /\ categories["c1"].currentUsage.yearly = 0

\* ---- expenses: properties ---------------------------------------------------
\* C16: every stored expense has totalCost = distance * costPerKm, whatever
\* totalCost the bodies of createExpense and updateExpense carried.
C16_TotalCostIsProduct ==
  \A id \in DOMAIN expenses :
     expenses[id].totalCost = expenses[id].distance * expenses[id].costPerKm

\* C17: no stored expense has a journeyDate after the present; createExpense
\* and updateExpense refuse such a date and change nothing.
C17_NoFutureJourneyDate ==
  \A id \in DOMAIN expenses : ~IsFuture(expenses[id].journeyDate)

\* the budget check of an expense of category c fails: one of its two
\* internal calls is not answered with success
CheckFails(exps, cats, c) ==
  \/ UpdateUsageRoute(InternalToken, exps, cats, c).code # 200
  \/ UsageRoute(InternalToken, exps, cats, c).code # 200

\* the step has written expense id: created it or changed it
Written(id) ==
  /\ res'.op \in {"createExpense", "updateExpense"}
  /\ id \in DOMAIN expenses'
  /\ id \notin DOMAIN expenses \/ expenses'[id] # expenses[id]

\* C18: when the budget check of a createExpense or updateExpense fails, the
\* expense stays written and on the Report of its period, whose totals count
\* it, the request answers 201 or 200, and the alert list is empty.
C18_FailedCheckKeepsWrite ==
  [][ \A id \in ExpenseIds :
        ( Written(id) /\ CheckFails(expenses', categories, expenses'[id].category) ) =>
           LET key == ExpenseKey(expenses'[id]) IN
           /\ res'.code = IF res'.op = "createExpense" THEN 201 ELSE 200
           /\ data' = <<>>
           /\ key \in DOMAIN reports'
           /\ \E i \in 1..Len(reports'[key].expenses) : reports'[key].expenses[i] = id
           /\ reports'[key].totalExpenseAmount
                 = SumTotalCost(expenses', reports'[key].expenses)
    ]_vars

\* updateExpense has answered 200 with no alert although the expenses of
\* January, 60, exceed the active limit of 50 of their category
C18_Witness ==
  /\ res = [op |-> "updateExpense", code |-> 200]
  /\ data = <<>>
  /\ \E i \in 1..Len(categories["c1"].budgetLimits) :
        LET limit == categories["c1"].budgetLimits[i]
        IN /\ limit.isActive /\ limit.amount = 50
           /\ calculateBudgetUsage(expenses, "c1", limit.startDate, limit.endDate) = 60

\* ---- quarterly reports: properties -------------------------------------------
\* C19: in every state, createQuarterlyReport(owner, quarter, year) answers
\* not-found and persists nothing when the owner has no Report in the three
\* months of the quarter; otherwise it persists a QuarterlyReport in draft
\* whose totals are the sums over the monthly Reports found and whose expense
\* list holds their expenses.
C19_QuarterlyPersisted ==
  \A u \in Users, quarter \in 1..4 :
  \A order \in FindOrders(MonthlyReports(reports, u, quarter, getFullYear(Now))) :
     LET year == getFullYear(Now)
         found == MonthlyReports(reports, u, quarter, year)
         after == QuarterlyOutcome(u, quarter, year, order)
         key == QuarterlyKey(u, quarter, year)
     IN IF found = {}
        THEN QuarterlyCode(u, quarter, year) = 404 /\ after = quarterly
        ELSE /\ QuarterlyCode(u, quarter, year) = 201
             /\ key \in DOMAIN after
             /\ after[key].status = "draft"
             /\ after[key].totalExpenseAmount
                  = SumTotalCost(expenses, after[key].expenses)
             /\ \A k \in found :
                   \A i \in 1..Len(reports[k].expenses) :
                      \E j \in 1..Len(after[key].expenses) :
                         after[key].expenses[j] = reports[k].expenses[i]

\* C20: the category routes accept the two internal calls of checkBudgetLimits,
\* so a successful createExpense or updateExpense leaves the currentUsage of
\* the expense's category refreshed and answers with the records of its
\* active limits in status warning or exceeded, and only those.
C20_InternalCallsAccepted ==
  [][ \A id \in ExpenseIds :
        ( Written(id) /\ res'.code \in {200, 201} ) =>
           LET c == expenses'[id].category IN
           /\ ~CheckFails(expenses', categories, c)
           /\ categories'[c].currentUsage = CurrentUsage(expenses', c)
           /\ data' = SelectSeq(BudgetUsage(expenses', categories', c),
                                LAMBDA b : b.alertStatus \in {"warning", "exceeded"})
    ]_vars

\* ---- budget limits: properties ------------------------------------------------
\* the months of a period
PeriodMonths(period) ==
  IF period = "monthly" THEN 1 ELSE IF period = "quarterly" THEN 3 ELSE 12

\* the day before d
DayBefore(d) ==
  IF d.day > 1 THEN [d EXCEPT !.day = d.day - 1]
  ELSE IF d.month > 1
  THEN [year |-> d.year, month |-> d.month - 1, day |-> DaysInMonth(d.year, d.month - 1)]
  ELSE [year |-> d.year - 1, month |-> 12, day |-> 31]

\* the last day of the month number index, counted from January of year 0
MonthEnd(index) ==
  [ year |-> index \div 12, month |-> (index % 12) + 1,
    day |-> DaysInMonth(index \div 12, (index % 12) + 1) ]

BuiltLimits ==
  { MakeLimit(b, TRUE) : b \in EndDateBodies } \cup
  { MakeLimit(b, b.isActive) : b \in CategoryLimitBodies }

\* start <= otherEnd and end >= otherStart
SimpleOverlap(a, b) ==
  /\ DateValue(a.startDate) <= DateValue(b.endDate)
  /\ DateValue(a.endDate) >= DateValue(b.startDate)

\* C22: for ranges with start <= end, the three-case overlap test of
\* createCategory and updateCategory answers as "start <= otherEnd and
\* end >= otherStart" does; the loop over the limits of a body applies it
\* between limits of the same period only: it refuses the second of two
\* limits exactly when they have the same period and their ranges overlap.
C22_OverlapTest ==
  /\ \A a \in BuiltLimits, b \in BuiltLimits :
        ( /\ DateValue(a.startDate) <= DateValue(a.endDate)
          /\ DateValue(b.startDate) <= DateValue(b.endDate) )
        => ( Overlaps(a.startDate, a.endDate, b) <=> SimpleOverlap(a, b) )
  /\ \A c \in DOMAIN categories, body \in CategoryLimitBodies :
        LET processed == categories[c].budgetLimits
            limit == MakeLimit(body, body.isActive)
        IN ProcessLimits(<<body>>, processed).ok
             <=> ~ \E i \in 1..Len(processed) :
                      /\ processed[i].period = limit.period
                      /\ SimpleOverlap(limit, processed[i])

\* updateCategory has stored a body of two limits, one of them inactive,
\* whose ranges overlap and whose periods differ
C22_Witness ==
  /\ res = [op |-> "updateCategory", code |-> 200]
  /\ "c2" \in DOMAIN categories
  /\ Len(categories["c2"].budgetLimits) = 2
  /\ ~categories["c2"].budgetLimits[1].isActive
  /\ categories["c2"].budgetLimits[1].period # categories["c2"].budgetLimits[2].period
  /\ SimpleOverlap(categories["c2"].budgetLimits[1], categories["c2"].budgetLimits[2])

\* C23: no stored budget limit has an amount <= 0 or no endDate, so that the
\* usage percentage of a stored limit never divides by zero: every add or
\* update with such an amount, with a period that is none of the three or
\* without a startDate is refused and stores nothing.
C23_StoredLimitsValid ==
  \A c \in DOMAIN categories :
     \A i \in 1..Len(categories[c].budgetLimits) :
        /\ categories[c].budgetLimits[i].amount > 0
        /\ categories[c].budgetLimits[i].period \in Periods
        /\ categories[c].budgetLimits[i].endDate # NoDate

\* C24: every limit stored in a category is found by an id: a
\* deleteBudgetLimit with that id answers 200 and leaves the category with
\* exactly its other limits, and updateBudgetLimit finds the limit too; in
\* no case are expenses touched.
C24_LimitFoundById ==
  \A c \in DOMAIN categories :
     \A i \in 1..Len(categories[c].budgetLimits) :
        \E budgetId \in BudgetIds :
           /\ LimitIndex(categories[c].budgetLimits, budgetId) = i
           /\ DeleteLimitCode("u2", c, budgetId) = 200
           /\ DeleteLimitOutcome("u2", c, budgetId)
                = [categories EXCEPT ![c].budgetLimits = RemoveAt(@, i)]

\* ---- reports: properties --------------------------------------------------------
\* C25: updateReportStatus leaves every Report in place with the
\* totalDistance, totalExpenseAmount and expenses list it had, whatever the
\* request body carries (a Report's user, month and year are its key).
C25_StatusKeepsTotals ==
  [][ res'.op = "updateReportStatus" =>
        /\ DOMAIN reports' = DOMAIN reports
        /\ \A k \in DOMAIN reports :
              /\ reports'[k].totalDistance = reports[k].totalDistance
              /\ reports'[k].totalExpenseAmount = reports[k].totalExpenseAmount
              /\ reports'[k].expenses = reports[k].expenses
    ]_vars

\* the places where expense id is referenced: report key and list position
References(id) ==
  { ref \in (DOMAIN reports) \X (1..MaxExpenses) :
      /\ ref[2] <= Len(reports[ref[1]].expenses)
      /\ reports[ref[1]].expenses[ref[2]] = id }

\* C26: every stored expense is referenced exactly once, by the Report of
\* its owner and of the month and year of its journeyDate, and no Report
\* references an expense that does not exist; so an expense request that
\* answers with an error leaves no expense outside a Report.
C26_ReferencedExactlyOnce ==
  /\ \A id \in DOMAIN expenses :
        /\ Cardinality(References(id)) = 1
        /\ \A ref \in References(id) : ref[1] = ExpenseKey(expenses[id])
  /\ \A k \in DOMAIN reports :
        \A i \in 1..Len(reports[k].expenses) :
           reports[k].expenses[i] \in DOMAIN expenses

\* C27: every Report has pendingAmount = totalExpenseAmount - reimbursedAmount
\* with 0 <= reimbursedAmount <= totalExpenseAmount and pendingAmount >= 0,
\* also after an approved Report is changed by a later expense request.
C27_AmountsBalance ==
  \A k \in DOMAIN reports :
     /\ reports[k].pendingAmount
          = reports[k].totalExpenseAmount - reports[k].reimbursedAmount
     /\ 0 <= reports[k].reimbursedAmount
     /\ reports[k].reimbursedAmount <= reports[k].totalExpenseAmount
     /\ reports[k].pendingAmount >= 0

\* the Reports of the users other than u, as a function of their keys
ReportsOfOthers(reps, u) == [k \in {x \in DOMAIN reps : x[1] # u} |-> reps[k]]

\* C28: updateExpense never changes the owner of an expense, whatever the
\* body carries, and leaves the Reports of every user other than the
\* expense's owner as they were.
C28_OwnerNeverChanges ==
  [][ res'.op = "updateExpense" =>
        \A id \in DOMAIN expenses :
           /\ id \in DOMAIN expenses'
           /\ expenses'[id].user = expenses[id].user
           /\ expenses'[id] # expenses[id] =>
                ReportsOfOthers(reports', expenses[id].user)
                  = ReportsOfOthers(reports, expenses[id].user)
    ]_vars

\* the Reports updateExpense of controllers/expenses.js leaves when it turns
\* the expense previous, of id, into expense
ReportsAfterUpdate(reps, previous, expense, id) ==
  IF SamePeriod(previous.journeyDate, expense.journeyDate)
  THEN ReportsSamePeriod(reps, previous, expense)
  ELSE ReportsNewPeriod(ReportsOldPeriod(reps, previous, expense, id), expense, id)

\* C29: a successful POST, PUT or DELETE through the expenses router leaves
\* the Reports as createExpense, updateExpense and deleteExpense of
\* controllers/expenses.js would leave them for the same expense.
C29_RouterKeepsReports ==
  [][ /\ ( res' = [op |-> "createExpense", code |-> 201] /\ nextId' = nextId + 1 ) =>
           reports' = ReportAfterCreate(reports, expenses'[nextId].user,
                                        expenses'[nextId], nextId)
      /\ \A id \in ExpenseIds :
            /\ Deletes(id) => reports' = ReportsAfterDelete(reports, expenses[id], id)
            /\ ( /\ res' = [op |-> "updateExpense", code |-> 200]
                 /\ id \in DOMAIN expenses /\ id \in DOMAIN expenses'
                 /\ expenses'[id] # expenses[id] ) =>
                 reports' = ReportsAfterUpdate(reports, expenses[id], expenses'[id], id)
    ]_vars

\* ---- concurrent creations for a period without a Report ------------------
\* the step is the end of a createExpense that found no Report
CreatesReport(p) ==
  /\ inflight.req[p].pc = "save"
  /\ inflight'.req[p].pc = "idle"
  /\ inflight.req[p].op = "createExpense"
  /\ inflight.req[p].report = NoReport

\* C30: a createExpense that found no Report for its period answers 201 and
\* leaves its expense referenced by the Report of the period, also when
\* another createExpense of the same owner created that Report between its
\* findOne and its Report.create: the Report then carries the totals of the
\* other expense plus its own.
C30_ConcurrentCreatesShareReport ==
  [][\A p \in Procs :
       CreatesReport(p) =>
         LET r == inflight.req[p]
             key == ExpenseKey(r.expense)
         IN /\ res'.code = 201
            /\ key \in DOMAIN reports'
            /\ \E i \in 1..Len(reports'[key].expenses) :
                  reports'[key].expenses[i] = r.id
            /\ key \in DOMAIN reports =>
                 /\ reports'[key].totalDistance =
                      reports[key].totalDistance + r.expense.distance
                 /\ reports'[key].totalExpenseAmount =
                      reports[key].totalExpenseAmount + r.expense.totalCost
    ]_vars

============================================================================
